---- MODULE Spec2Model ----
(***************************************************************************)
(* generate_icons.py: one linear routine that reads images/logo.svg,       *)
(* rasterizes it at six sizes, writes three PNG files and one ICO file,    *)
(* and a top-level handler that prints every failure.  The file system,    *)
(* the routine's locals, its position and what it printed are the state.   *)
(* A step that touches the outside world (file system, cairosvg, Pillow)   *)
(* either succeeds or raises; which one is the environment's choice.       *)
(***************************************************************************)
EXTENDS Integers, Sequences, FiniteSets, TLC

\* Number of times the script is run one after the other.
MaxRuns == 3

----------------------------------------------------------------------------
\* Paths named in the source.
LOGO_SVG == "images/logo.svg"
LOGO_192 == "images/logo-192x192.png"
LOGO_512 == "images/logo-512x512.png"
BADGE_72 == "images/badge-72x72.png"
FAVICON == "images/favicon.ico"

\* The order in which generate_icons writes its output files.
OutputOrder == <<LOGO_192, LOGO_512, BADGE_72, FAVICON>>
OutputFiles == {OutputOrder[i] : i \in 1..Len(OutputOrder)}
Files == {LOGO_SVG} \cup OutputFiles

\* Sizes named in the source.
SIZE_192 == 192
SIZE_512 == 512
SIZE_72 == 72
SIZE_16 == 16
SIZE_32 == 32
SIZE_48 == 48

\* Messages printed by the script.
MSG_SUCCESS == "Icons generated successfully!"
MSG_ERROR == "Error generating icons: "
MSG_HINT_1 == "\nIf you see errors about cairosvg, install it with:"
MSG_HINT_2 == "pip install cairosvg pillow"

----------------------------------------------------------------------------
\* File contents and Python values, all records with a kind.
None == [kind |-> "none"]
Absent == [kind |-> "absent"]
\* Content an output file may hold before the first run.
Stale == [kind |-> "stale"]
\* What is left of a file opened with 'wb' whose write did not complete.
Partial == [kind |-> "partial"]

SvgA == [kind |-> "svg", id |-> "A", valid |-> TRUE]
SvgB == [kind |-> "svg", id |-> "B", valid |-> TRUE]
\* Truncated or invalid markup.
SvgBad == [kind |-> "svg", id |-> "bad", valid |-> FALSE]
SourceContents == {SvgA, SvgB, SvgBad}

\* The exceptions the steps raise; all are subclasses of Exception.
ExceptionClasses ==
    {"FileExistsError", "PermissionError", "FileNotFoundError", "ParseError",
     "MemoryError", "OSError", "UnidentifiedImageError"}

----------------------------------------------------------------------------
\* The two image libraries, as functions of their arguments.

\* cairosvg.svg2png(bytestring, output_width, output_height): the PNG bytes of
\* the markup rendered at w x h; it raises on markup it cannot parse.
svg2png_lenient(bytestring, w, h) ==
    [ok |-> bytestring.kind = "svg",
     data |-> [kind |-> "png", src |-> bytestring.id, w |-> w, h |-> h]]

svg2png(bytestring, w, h) ==
    IF bytestring.kind = "svg" /\ bytestring.valid
    THEN [ok |-> TRUE,
          data |-> [kind |-> "png", src |-> bytestring.id, w |-> w, h |-> h]]
    ELSE [ok |-> FALSE, data |-> None]

\* Image.open(io.BytesIO(data)): the decoded frame, with the size the PNG has.
ImageOpen(data) ==
    [kind |-> "img", src |-> data.src, width |-> data.w, height |-> data.h]

SeqRange(s) == {s[i] : i \in 1..Len(s)}

SizeLess(a, b) == a[1] < b[1] \/ (a[1] = b[1] /\ a[2] < b[2])

\* sorted(set(sizes)) for (width, height) tuples.
RECURSIVE SortedSizes(_)
SortedSizes(S) ==
    IF S = {} THEN <<>>
    ELSE LET m == CHOOSE x \in S : \A y \in S : x = y \/ SizeLess(x, y)
         IN  <<m>> \o SortedSizes(S \ {m})

\* im.save(path, format='ICO', sizes=..., append_images=...): the frames the
\* ICO encoder stores.  The encoder walks sorted(set(sizes)), drops every size
\* larger than im itself (or than 256), takes the provided image of exactly
\* that size when there is one and a scaled copy of the last provided image
\* otherwise.
IcoFrames(im, sizes, append_images) ==
    LET provided_ims == <<im>> \o append_images
        kept == SelectSeq(SortedSizes(SeqRange(sizes)),
                          LAMBDA s : ~(s[1] > im.width \/ s[2] > im.height
                                       \/ s[1] > 256 \/ s[2] > 256))
        Matches(s) == {i \in 1..Len(provided_ims) :
                          <<provided_ims[i].width, provided_ims[i].height>> = s}
        FrameFor(s) ==
            IF Matches(s) # {}
            THEN LET i == CHOOSE i \in Matches(s) : \A j \in Matches(s) : i <= j
                 IN  [src |-> provided_ims[i].src, width |-> s[1],
                      height |-> s[2], scaled |-> FALSE]
            ELSE [src |-> provided_ims[Len(provided_ims)].src, width |-> s[1],
                  height |-> s[2], scaled |-> TRUE]
    IN  [k \in 1..Len(kept) |-> FrameFor(kept[k])]

IcoFile(im, sizes, append_images) ==
    [kind |-> "ico", frames |-> IcoFrames(im, sizes, append_images)]

\* open(path, 'wb') followed by f.write(data): the file holds data and nothing
\* of what it held before.
WriteBytesAppend(old, data) ==
    IF old = Absent THEN data ELSE [kind |-> "concat", head |-> old, tail |-> data]

WriteBytes(old, data) == data

\* `except Exception`: the classes the top-level handler catches.
CatchesOSErrorOnly(e) ==
    e \in {"FileExistsError", "PermissionError", "FileNotFoundError", "OSError"}

Catches(e) == e \in ExceptionClasses

----------------------------------------------------------------------------
VARIABLES
    dir,            \* what is at the path images: "absent", "dir" or "file"
    fs,             \* content of every file under images/
    readable,       \* whether images/logo.svg may be opened for reading
    pc,             \* position in the script
    svg_content, png_data, png_data_16, png_data_32, png_data_48,
    icon_sizes, pil_images,     \* locals of generate_icons
    stdout,         \* what the process printed, in order
    exc,            \* the exception that was raised, "none" when none was
    exitCode,       \* exit status of the process, -1 while it runs
    run,            \* which run of the script this is
    pre,            \* fs at the start of the run
    touched,        \* output files this run opened for writing, in order
    written,        \* output files this run wrote completely, in order
    attempted,      \* output files this run started to produce, in order
    failedStep,     \* the position at which exc was raised
    caught,         \* how many times the handler ran in this run
    history         \* one record per successful run: what it read and left

env == <<dir, fs, readable>>
locals == <<svg_content, png_data, png_data_16, png_data_32, png_data_48,
            icon_sizes, pil_images>>
ghost == <<pre, touched, written, attempted, caught>>
vars == <<dir, fs, readable, pc, svg_content, png_data, png_data_16, png_data_32,
          png_data_48, icon_sizes, pil_images, stdout, exc, exitCode, run, pre,
          touched, written, attempted, failedStep, caught, history>>

Init ==
    /\ dir \in {"absent", "dir", "file"}
    /\ fs \in [Files -> SourceContents \cup {Absent, Stale}]
    /\ fs[LOGO_SVG] \in SourceContents \cup {Absent}
    /\ \A f \in OutputFiles : fs[f] \in {Absent, Stale}
    /\ dir # "dir" => \A f \in Files : fs[f] = Absent
    /\ readable \in BOOLEAN
    /\ fs[LOGO_SVG] = Absent => readable
    /\ pc = "makedirs"
    /\ svg_content = None /\ png_data = None
    /\ png_data_16 = None /\ png_data_32 = None /\ png_data_48 = None
    /\ icon_sizes = <<>> /\ pil_images = <<>>
    /\ stdout = <<>>
    /\ exc = "none"
    /\ exitCode = -1
    /\ run = 1
    /\ pre = fs
    /\ touched = <<>> /\ written = <<>> /\ attempted = <<>>
    /\ failedStep = "none"
    /\ caught = 0
    /\ history = <<>>

\* raise e at position step: control goes to the handler of __main__.
Raise(e, step) ==
    /\ pc' = "except"
    /\ exc' = e
    /\ failedStep' = step

NoRaise == UNCHANGED <<exc, failedStep>>

----------------------------------------------------------------------------
\* generate_icons, statement by statement.

\* os.makedirs('images', exist_ok=True)
MakeDirs ==
    /\ pc = "makedirs"
    /\ \/ /\ dir \in {"absent", "dir"}
          /\ dir' = "dir"
          /\ pc' = "read"
          /\ NoRaise
       \/ /\ dir = "file"
          /\ Raise("FileExistsError", "makedirs")
          /\ UNCHANGED dir
       \/ /\ dir = "absent"
          /\ Raise("PermissionError", "makedirs")
          /\ UNCHANGED dir
    /\ UNCHANGED <<fs, readable, locals, stdout, exitCode, run, ghost, history>>

\* open(path, 'rb') and f.read(): the bytes of the file, or the failure.
OpenForReadFallback(path) ==
    [ok |-> TRUE,
     data |-> IF dir = "dir" /\ fs[path] # Absent /\ readable THEN fs[path] ELSE SvgA,
     error |-> "none"]

OpenForRead(path) ==
    IF dir = "dir" /\ fs[path] # Absent /\ readable
    THEN [ok |-> TRUE, data |-> fs[path], error |-> "none"]
    ELSE [ok |-> FALSE, data |-> None,
          error |-> IF dir = "dir" /\ fs[path] # Absent
                    THEN "PermissionError" ELSE "FileNotFoundError"]

\* with open('images/logo.svg', 'rb') as f: svg_content = f.read()
ReadSource ==
    /\ pc = "read"
    /\ LET r == OpenForRead(LOGO_SVG)
       IN  IF r.ok
           THEN /\ svg_content' = r.data
                /\ pc' = "rast192"
                /\ NoRaise
           ELSE /\ Raise(r.error, "read")
                /\ UNCHANGED svg_content
    /\ UNCHANGED <<env, png_data, png_data_16, png_data_32, png_data_48,
                   icon_sizes, pil_images, stdout, exitCode, run, ghost, history>>

\* png_data = cairosvg.svg2png(bytestring=svg_content, output_width=w,
\* output_height=h), the first statement of the block that produces `file`.
\* The call raises on bad markup, and when the renderer runs out of resources.
RasterizeStandaloneSwallow(here, next, file, w, h) ==
    /\ pc = here
    /\ attempted' = Append(attempted, file)
    /\ \E resources \in BOOLEAN :
          LET r == svg2png(svg_content, w, h)
          IN  IF resources /\ r.ok
              THEN /\ png_data' = r.data
                   /\ pc' = next
                   /\ NoRaise
              ELSE /\ exc' = IF r.ok THEN "MemoryError" ELSE "ParseError"
                   /\ failedStep' = here
                   /\ pc' = IF here = "rast192" THEN "rast512"
                            ELSE IF here = "rast512" THEN "rast72" ELSE "except"
                   /\ UNCHANGED png_data
    /\ UNCHANGED <<env, svg_content, png_data_16, png_data_32, png_data_48,
                   icon_sizes, pil_images, stdout, exitCode, run, pre, touched,
                   written, caught, history>>

RasterizeStandalone(here, next, file, w, h) ==
    /\ pc = here
    /\ attempted' = Append(attempted, file)
    /\ \E resources \in BOOLEAN :
          LET r == svg2png(svg_content, w, h)
          IN  IF resources /\ r.ok
              THEN /\ png_data' = r.data
                   /\ pc' = next
                   /\ NoRaise
              ELSE /\ Raise(IF r.ok THEN "MemoryError" ELSE "ParseError", here)
                   /\ UNCHANGED png_data
    /\ UNCHANGED <<env, svg_content, png_data_16, png_data_32, png_data_48,
                   icon_sizes, pil_images, stdout, exitCode, run, pre, touched,
                   written, caught, history>>

\* with open(file, 'wb') as f: f.write(png_data).  open may fail and leave the
\* file alone; f.write may fail after open has truncated the file.
WriteStandaloneSwallow(here, next, file) ==
    /\ pc = here
    /\ \/ /\ fs' = [fs EXCEPT ![file] = WriteBytes(fs[file], png_data)]
          /\ touched' = Append(touched, file)
          /\ written' = Append(written, file)
          /\ pc' = next
          /\ NoRaise
       \/ /\ exc' = "PermissionError" /\ failedStep' = here /\ pc' = next
          /\ UNCHANGED <<fs, touched, written>>
       \/ /\ fs' = [fs EXCEPT ![file] = Partial]
          /\ touched' = Append(touched, file)
          /\ exc' = "OSError" /\ failedStep' = here /\ pc' = next
          /\ UNCHANGED written
    /\ UNCHANGED <<dir, readable, locals, stdout, exitCode, run, pre, attempted,
                   caught, history>>

WriteStandalone(here, next, file) ==
    /\ pc = here
    /\ \/ /\ fs' = [fs EXCEPT ![file] = WriteBytes(fs[file], png_data)]
          /\ touched' = Append(touched, file)
          /\ written' = Append(written, file)
          /\ pc' = next
          /\ NoRaise
       \/ /\ Raise("PermissionError", here)
          /\ UNCHANGED <<fs, touched, written>>
       \/ /\ fs' = [fs EXCEPT ![file] = Partial]
          /\ touched' = Append(touched, file)
          /\ Raise("OSError", here)
          /\ UNCHANGED written
    /\ UNCHANGED <<dir, readable, locals, stdout, exitCode, run, pre, attempted,
                   caught, history>>

Rasterize192 == RasterizeStandalone("rast192", "write192", LOGO_192, SIZE_192, SIZE_192)
Write192 == WriteStandalone("write192", "rast512", LOGO_192)

\* The 512 block with its svg2png call left out: png_data still holds the 192
\* rendering when the file is written.
Rasterize512_Skipped ==
    /\ pc = "rast512"
    /\ attempted' = Append(attempted, LOGO_512)
    /\ pc' = "write512"
    /\ NoRaise
    /\ UNCHANGED <<env, locals, stdout, exitCode, run, pre, touched, written,
                   caught, history>>

Rasterize512 == RasterizeStandalone("rast512", "write512", LOGO_512, SIZE_512, SIZE_512)
Write512 == WriteStandalone("write512", "rast72", LOGO_512)

Rasterize72 == RasterizeStandalone("rast72", "write72", BADGE_72, SIZE_72, SIZE_72)

\* The badge written over the 192 logo.
Write72_WrongPath == WriteStandalone("write72", "rast16", LOGO_192)

Write72 == WriteStandalone("write72", "rast16", BADGE_72)

\* png_data_16 = cairosvg.svg2png(bytestring=svg_content, output_width=16,
\* output_height=16), the first statement of the favicon block.
Rasterize16 ==
    /\ pc = "rast16"
    /\ attempted' = Append(attempted, FAVICON)
    /\ \E resources \in BOOLEAN :
          LET r == svg2png(svg_content, SIZE_16, SIZE_16)
          IN  IF resources /\ r.ok
              THEN /\ png_data_16' = r.data
                   /\ pc' = "rast32"
                   /\ NoRaise
              ELSE /\ Raise(IF r.ok THEN "MemoryError" ELSE "ParseError", "rast16")
                   /\ UNCHANGED png_data_16
    /\ UNCHANGED <<env, svg_content, png_data, png_data_32, png_data_48,
                   icon_sizes, pil_images, stdout, exitCode, run, pre, touched,
                   written, caught, history>>

Rasterize32 ==
    /\ pc = "rast32"
    /\ \E resources \in BOOLEAN :
          LET r == svg2png(svg_content, SIZE_32, SIZE_32)
          IN  IF resources /\ r.ok
              THEN /\ png_data_32' = r.data
                   /\ pc' = "rast48"
                   /\ NoRaise
              ELSE /\ Raise(IF r.ok THEN "MemoryError" ELSE "ParseError", "rast32")
                   /\ UNCHANGED png_data_32
    /\ UNCHANGED <<env, svg_content, png_data, png_data_16, png_data_48,
                   icon_sizes, pil_images, stdout, exitCode, run, ghost, history>>

Rasterize48 ==
    /\ pc = "rast48"
    /\ \E resources \in BOOLEAN :
          LET r == svg2png(svg_content, SIZE_48, SIZE_48)
          IN  IF resources /\ r.ok
              THEN /\ png_data_48' = r.data
                   /\ pc' = "icon_sizes"
                   /\ NoRaise
              ELSE /\ Raise(IF r.ok THEN "MemoryError" ELSE "ParseError", "rast48")
                   /\ UNCHANGED png_data_48
    /\ UNCHANGED <<env, svg_content, png_data, png_data_16, png_data_32,
                   icon_sizes, pil_images, stdout, exitCode, run, ghost, history>>

\* icon_sizes = [(16, png_data_16), (32, png_data_32), (48, png_data_48)]
\* pil_images = []
BuildIconSizes ==
    /\ pc = "icon_sizes"
    /\ icon_sizes' = <<[size |-> SIZE_16, data |-> png_data_16],
                       [size |-> SIZE_32, data |-> png_data_32],
                       [size |-> SIZE_48, data |-> png_data_48]>>
    /\ pil_images' = <<>>
    /\ pc' = "decode"
    /\ NoRaise
    /\ UNCHANGED <<env, svg_content, png_data, png_data_16, png_data_32,
                   png_data_48, stdout, exitCode, run, ghost, history>>

\* One iteration of `for size, data in icon_sizes`: img = Image.open(...),
\* pil_images.append(img).  The loop ends after the last element.
DecodeFrame ==
    /\ pc = "decode"
    /\ Len(pil_images) < Len(icon_sizes)
    /\ LET data == icon_sizes[Len(pil_images) + 1].data
       IN  \/ /\ pil_images' = Append(pil_images, ImageOpen(data))
              /\ pc' = IF Len(pil_images) + 1 = Len(icon_sizes)
                       THEN "save" ELSE "decode"
              /\ NoRaise
           \/ /\ Raise("UnidentifiedImageError", "decode")
              /\ UNCHANGED pil_images
    /\ UNCHANGED <<env, svg_content, png_data, png_data_16, png_data_32,
                   png_data_48, icon_sizes, stdout, exitCode, run, ghost, history>>

\* pil_images[0].save('images/favicon.ico', format='ICO',
\*     sizes=[(img.width, img.height) for img in pil_images],
\*     append_images=pil_images[1:])
\* save may fail before it opens the file, or while it writes; in the second
\* case what it leaves is a truncated file, or no file when there was none.
SaveFavicon ==
    /\ pc = "save"
    /\ \/ /\ fs' = [fs EXCEPT ![FAVICON] =
                      IcoFile(pil_images[1],
                              [i \in 1..Len(pil_images) |->
                                  <<pil_images[i].width, pil_images[i].height>>],
                              SubSeq(pil_images, 2, Len(pil_images)))]
          /\ touched' = Append(touched, FAVICON)
          /\ written' = Append(written, FAVICON)
          /\ pc' = "print"
          /\ NoRaise
       \/ /\ Raise("PermissionError", "save")
          /\ UNCHANGED <<fs, touched, written>>
       \/ /\ \E left \in {Partial, Absent} :
                /\ left = Absent => fs[FAVICON] = Absent
                /\ fs' = [fs EXCEPT ![FAVICON] = left]
          /\ touched' = Append(touched, FAVICON)
          /\ Raise("OSError", "save")
          /\ UNCHANGED written
    /\ UNCHANGED <<dir, readable, locals, stdout, exitCode, run, pre, attempted,
                   caught, history>>

\* print("Icons generated successfully!"), then generate_icons returns.
PrintSuccess ==
    /\ pc = "print"
    /\ stdout' = Append(stdout, [text |-> MSG_SUCCESS, arg |-> ""])
    /\ pc' = "end"
    /\ UNCHANGED <<env, locals, exc, failedStep, exitCode, run, ghost, history>>

----------------------------------------------------------------------------
\* __main__: try: generate_icons() except Exception as e: three prints.

\* The handler with the success message printed after the try statement
\* instead of inside generate_icons.
HandlerThenSuccess ==
    /\ pc = "except"
    /\ stdout' = stdout \o <<[text |-> MSG_ERROR, arg |-> exc],
                             [text |-> MSG_HINT_1, arg |-> ""],
                             [text |-> MSG_HINT_2, arg |-> ""],
                             [text |-> MSG_SUCCESS, arg |-> ""]>>
    /\ caught' = caught + 1
    /\ pc' = "end"
    /\ UNCHANGED <<env, locals, exc, failedStep, exitCode, run, pre, touched,
                   written, attempted, history>>

Handler ==
    /\ pc = "except"
    /\ IF Catches(exc)
       THEN /\ stdout' = stdout \o <<[text |-> MSG_ERROR, arg |-> exc],
                                     [text |-> MSG_HINT_1, arg |-> ""],
                                     [text |-> MSG_HINT_2, arg |-> ""]>>
            /\ caught' = caught + 1
       ELSE UNCHANGED <<stdout, caught>>
    /\ pc' = "end"
    /\ UNCHANGED <<env, locals, exc, failedStep, exitCode, run, pre, touched,
                   written, attempted, history>>

Outputs(f) == [o \in OutputFiles |-> f[o]]

\* The end of the script: the interpreter exits, with status 0 unless an
\* exception went through uncaught.
ProcessExit ==
    /\ pc = "end"
    /\ pc' = "exited"
    /\ exitCode' = IF exc # "none" /\ caught = 0 THEN 1 ELSE 0
    /\ history' = IF exc = "none"
                  THEN Append(history, [run |-> run, src |-> svg_content,
                                        out |-> Outputs(fs)])
                  ELSE history
    /\ UNCHANGED <<env, locals, stdout, exc, failedStep, run, ghost>>

\* The script is started again: a new process, new locals, the same files.
NewRun ==
    /\ pc = "exited"
    /\ run < MaxRuns
    /\ run' = run + 1
    /\ pc' = "makedirs"
    /\ svg_content' = None /\ png_data' = None
    /\ png_data_16' = None /\ png_data_32' = None /\ png_data_48' = None
    /\ icon_sizes' = <<>> /\ pil_images' = <<>>
    /\ stdout' = <<>>
    /\ exc' = "none"
    /\ exitCode' = -1
    /\ pre' = fs
    /\ touched' = <<>> /\ written' = <<>> /\ attempted' = <<>>
    /\ failedStep' = "none"
    /\ caught' = 0
    /\ UNCHANGED <<env, history>>

\* Between two runs somebody replaces or removes images/logo.svg.
EditSource ==
    /\ pc = "exited"
    /\ run < MaxRuns
    /\ dir = "dir"
    /\ \E c \in SourceContents \cup {Absent} :
          /\ c # fs[LOGO_SVG]
          /\ fs' = [fs EXCEPT ![LOGO_SVG] = c]
    /\ UNCHANGED <<dir, readable, pc, locals, stdout, exc, failedStep, exitCode,
                   run, ghost, history>>

Step ==
    \/ MakeDirs
    \/ ReadSource
    \/ Rasterize192
    \/ Write192
    \/ Rasterize512
    \/ Write512
    \/ Rasterize72
    \/ Write72
    \/ Rasterize16
    \/ Rasterize32
    \/ Rasterize48
    \/ BuildIconSizes
    \/ DecodeFrame
    \/ SaveFavicon
    \/ PrintSuccess
    \/ Handler
    \/ ProcessExit

Next ==
    \/ Step
    \/ NewRun
    \/ EditSource

Spec == Init /\ [][Next]_vars

\* The interpreter runs the script to its end: single-threaded, no waiting.
FairSpec == Spec /\ WF_vars(Step)

----------------------------------------------------------------------------
\* Vocabulary of the properties.

Printed(m) == \E i \in 1..Len(stdout) : stdout[i].text = m
Finished == pc = "exited"
Succeeded == Finished /\ Printed(MSG_SUCCESS)
Failed == exc # "none"

IsPrefix(s, t) == Len(s) <= Len(t) /\ \A i \in 1..Len(s) : s[i] = t[i]
Unchanged(f) == fs[f] = pre[f]

Standalone == {LOGO_192, LOGO_512, BADGE_72}
DeclaredSize(f) ==
    IF f = LOGO_192 THEN 192 ELSE IF f = LOGO_512 THEN 512 ELSE 72
IconSizes == <<16, 32, 48>>

\* The output, by its place in OutputOrder, in whose block a position lies.
BlockOf(step) ==
    IF step \in {"rast192", "write192"} THEN 1
    ELSE IF step \in {"rast512", "write512"} THEN 2
    ELSE IF step \in {"rast72", "write72"} THEN 3
    ELSE IF step \in {"rast16", "rast32", "rast48", "decode", "save"} THEN 4
    ELSE 0

SourceMissingAtStart == pre[LOGO_SVG] = Absent \/ ~readable
Malformed(b) == b.kind = "svg" /\ ~b.valid

----------------------------------------------------------------------------
\* C1 (as stated): a run that ends with the success message has written
\* exactly five output files.
C1_FiveFiles ==
    Succeeded => Cardinality(SeqRange(written)) = 5

\* C1 (amended): a run that ends with the success message has written exactly
\* the four output files, once each; every PNG file has the size its name
\* declares, and favicon.ico is a container with at least one frame, every
\* frame square and of one of the declared sizes 16, 32, 48.
C1_FourFiles ==
    Succeeded =>
        /\ SeqRange(written) = OutputFiles
        /\ Len(written) = 4
        /\ Cardinality(SeqRange(written)) = 4
        /\ \A f \in Standalone :
              /\ fs[f].kind = "png"
              /\ fs[f].w = DeclaredSize(f) /\ fs[f].h = DeclaredSize(f)
        /\ fs[FAVICON].kind = "ico"
        /\ Len(fs[FAVICON].frames) >= 1
        /\ \A i \in 1..Len(fs[FAVICON].frames) :
              /\ fs[FAVICON].frames[i].width = fs[FAVICON].frames[i].height
              /\ fs[FAVICON].frames[i].width \in SeqRange(IconSizes)

C1_Witness ==
    /\ Succeeded
    /\ pre[LOGO_192] = Stale
    /\ pre[FAVICON] = Absent

\* C2: when images/logo.svg is missing or unreadable at the start of a run,
\* the run reports an error, and at every moment of the run each output file
\* is as it was before the run: the same content, or still absent.
C2_MissingSource ==
    SourceMissingAtStart =>
        /\ \A f \in OutputFiles : Unchanged(f)
        /\ touched = <<>>
        /\ svg_content = None
        /\ Finished => (Printed(MSG_ERROR) /\ ~Printed(MSG_SUCCESS))

C2_Witness ==
    /\ Finished
    /\ SourceMissingAtStart
    /\ dir = "dir"
    /\ pre[LOGO_192] = Stale
    /\ pre[BADGE_72] = Absent
    /\ Printed(MSG_ERROR)

\* C3: when the source read is malformed markup, the failure is raised by the
\* first rasterization, and both at that moment and until the end of the run
\* no output file has been opened, created or modified; the run reports it.
C3_Malformed ==
    Malformed(svg_content) =>
        /\ \A f \in OutputFiles : Unchanged(f)
        /\ touched = <<>>
        /\ pc \in {"rast192", "except", "end", "exited"}
        /\ Failed => (failedStep = "rast192" /\ exc = "ParseError")
        /\ Finished => (Failed /\ Printed(MSG_ERROR))

C3_Witness ==
    /\ Finished
    /\ Malformed(svg_content)
    /\ exc = "ParseError"
    /\ pre[LOGO_192] = Stale
    /\ pre[LOGO_512] = Absent

\* C4: a failure raised at any step is caught once: the finished run has
\* printed the error description and then the two hint lines and nothing
\* else, not the success message, and the process has exited with status 0.
C4_CaughtOnce ==
    /\ caught <= 1
    /\ (Failed /\ Finished) =>
          /\ caught = 1
          /\ stdout = <<[text |-> MSG_ERROR, arg |-> exc],
                        [text |-> MSG_HINT_1, arg |-> ""],
                        [text |-> MSG_HINT_2, arg |-> ""]>>
          /\ ~Printed(MSG_SUCCESS)
          /\ exitCode = 0

C4_Witness ==
    /\ Finished
    /\ failedStep = "rast48"
    /\ exc = "MemoryError"
    /\ caught = 1

\* C5: two successful runs that read the same source leave every output file
\* with the same content, whatever the files held before either run, and a
\* successful run leaves no output file with anything of its earlier content.
C5_Idempotent ==
    /\ \A i, j \in 1..Len(history) :
          history[i].src = history[j].src => history[i].out = history[j].out
    /\ \A i \in 1..Len(history) :
          \A f \in OutputFiles : history[i].out[f].kind \in {"png", "ico"}

C5_Witness ==
    /\ Finished
    /\ Len(history) = 2
    /\ history[1].run = 1 /\ history[2].run = 3
    /\ history[1].src = SvgB /\ history[2].src = SvgB
    /\ pre[LOGO_512] = Partial
    /\ history[2].out = Outputs(fs)

\* C6 (as stated): after a successful run favicon.ico holds exactly three
\* frames, of widths 16, 32, 48 in this order, each as high as wide and each
\* the rendering of the source at that size; the frame list passed to save is
\* not empty and its first frame is 16x16.
C6_ThreeFrames ==
    Succeeded =>
        /\ Len(pil_images) >= 1
        /\ pil_images[1].width = 16 /\ pil_images[1].height = 16
        /\ fs[FAVICON].kind = "ico"
        /\ Len(fs[FAVICON].frames) = 3
        /\ \A i \in 1..3 :
              fs[FAVICON].frames[i] =
                  [src |-> svg_content.id, width |-> IconSizes[i],
                   height |-> IconSizes[i], scaled |-> FALSE]

\* C7: once a run has written a standalone PNG file, the file holds the
\* rendering of the source read in this run at the size the file's name
\* declares, and of no other size.
C7_Verbatim ==
    \A f \in Standalone :
        (\E i \in 1..Len(written) : written[i] = f) =>
            fs[f] = [kind |-> "png", src |-> svg_content.id,
                     w |-> DeclaredSize(f), h |-> DeclaredSize(f)]

C7_Witness ==
    /\ Succeeded
    /\ svg_content = SvgB
    /\ pre[LOGO_512] = Stale
    /\ fs[LOGO_512].w = 512 /\ fs[BADGE_72].w = 72 /\ fs[LOGO_192].w = 192

\* C8 (as stated): when the rasterization or the write of one output fails,
\* the run still attempts every output that comes after it.
C8_Continues ==
    (Finished /\ Failed /\ BlockOf(failedStep) >= 1) =>
        \A k \in (BlockOf(failedStep) + 1)..Len(OutputOrder) :
            OutputOrder[k] \in SeqRange(attempted)

\* C8 (amended): when the rasterization or the write of one output fails, the
\* run attempts no output that comes after it: the outputs attempted are those
\* up to the failing one, the ones before it stay written, and every file
\* after it is as it was before the run.
C8_Aborts ==
    (Failed /\ BlockOf(failedStep) >= 1) =>
        /\ attempted = SubSeq(OutputOrder, 1, BlockOf(failedStep))
        /\ written = SubSeq(OutputOrder, 1, BlockOf(failedStep) - 1)
        /\ \A k \in (BlockOf(failedStep) + 1)..Len(OutputOrder) :
              Unchanged(OutputOrder[k])

C8_Witness ==
    /\ Finished
    /\ failedStep = "rast512"
    /\ pre[BADGE_72] = Stale
    /\ fs[BADGE_72] = Stale
    /\ fs[LOGO_192].kind = "png"

\* C9: at every moment of a run the output files written so far, and those
\* opened for writing so far, are a prefix of the fixed order; favicon.ico is
\* written only after the three PNG files were written and the renderings at
\* 16, 32 and 48 were made; after a failure control is out of generate_icons,
\* so nothing more is written; every file after the prefix is untouched.
C9_Prefix ==
    /\ IsPrefix(written, OutputOrder)
    /\ IsPrefix(touched, OutputOrder)
    /\ IsPrefix(written, touched)
    /\ Len(touched) <= Len(written) + 1
    /\ Len(touched) > Len(written) => Failed
    /\ FAVICON \in SeqRange(touched) =>
          /\ Standalone \subseteq SeqRange(written)
          /\ png_data_16 # None /\ png_data_32 # None /\ png_data_48 # None
    /\ Failed => pc \in {"except", "end", "exited"}
    /\ \A k \in (Len(touched) + 1)..Len(OutputOrder) : Unchanged(OutputOrder[k])
    /\ \A k \in 1..Len(written) : fs[OutputOrder[k]].kind \in {"png", "ico"}

C9_Witness ==
    /\ Finished
    /\ Failed
    /\ written = <<LOGO_192, LOGO_512>>
    /\ touched = <<LOGO_192, LOGO_512, BADGE_72>>
    /\ pre[FAVICON] = Stale /\ fs[FAVICON] = Stale

\* C10: every run finishes, and a finished run has printed exactly one of
\* the two outcomes: the success message exactly when all four output files
\* were written in the run, the error message followed by the hint exactly
\* when a step failed; the success message is never on the output while an
\* output file of the run is unwritten.
C10_OneOutcome ==
    /\ [](Finished =>
            /\ Printed(MSG_SUCCESS) # Printed(MSG_ERROR)
            /\ Printed(MSG_SUCCESS) <=> SeqRange(written) = OutputFiles
            /\ Printed(MSG_ERROR) <=> Failed
            /\ Printed(MSG_ERROR) =>
                  (Len(stdout) = 3 /\ stdout[1].text = MSG_ERROR
                   /\ stdout[2].text = MSG_HINT_1 /\ stdout[3].text = MSG_HINT_2))
    /\ [](Printed(MSG_SUCCESS) => (written = OutputOrder /\ ~Failed))
    /\ (~Finished ~> Finished)

C10_Witness ==
    /\ Finished
    /\ Printed(MSG_ERROR)
    /\ Len(written) = 3
    /\ failedStep = "save"

====
